---- MODULE Spec2Model ----
(***************************************************************************)
(* Model of api_server.py: the REST facade of the dental-clinic backend.   *)
(* One action per route handler.  JSON objects are functions whose DOMAIN  *)
(* is the set of keys present, so 'k in d' is k \in DOMAIN d and           *)
(* d.get(k, default) is Get(d, k, default).  Python's None is NoneV.       *)
(***************************************************************************)
EXTENDS Integers, Sequences, FiniteSets, TLC

VARIABLES
    messages_store,  \* the module-level list messages_store
    env,             \* os.environ as read through os.getenv (NoneV = unset)
    req,             \* the request being served (NoRequest between requests)
    resp,            \* its response [status, body] (NoResponse until the handler ran)
    outbound         \* the outbound HTTP calls the handler issued, in order

vars == <<messages_store, env, req, resp, outbound>>

----------------------------------------------------------------------------
(* Python values *)

NoneV == "None"

EmptyObj == [k \in {} |-> 0]

\* dict.get(k, default)
Get(d, k, default) == IF k \in DOMAIN d THEN d[k] ELSE default

\* truth value of a str-or-None, as in `if not x`
Truthy(v) == v # NoneV /\ v # ""

\* os.getenv(name): None when the variable is unset
getenv(name) == env[name]

\* os.getenv(name, default)
getenv_default(name, default) == IF env[name] = NoneV THEN default ELSE env[name]

EnvNames ==
    { "VITE_WHATSAPP_ACCESS_TOKEN", "VITE_WHATSAPP_PHONE_ID",
      "WHATSAPP_ACCESS_TOKEN", "WHATSAPP_PHONE_ID",
      "VITE_INSTAGRAM_ACCESS_TOKEN",
      "WHATSAPP_VERIFY_TOKEN", "INSTAGRAM_VERIFY_TOKEN",
      "VAPI_API_KEY", "VAPI_ASSISTANT_ID", "VAPI_PHONE_NUMBER",
      "VITE_META_ACCESS_TOKEN", "VITE_META_AD_ACCOUNT_ID" }

EnvUnset == [n \in EnvNames |-> NoneV]

\* the environment with the variables of `choice` set and every other unset
EnvWith(choice) == [n \in EnvNames |-> IF n \in DOMAIN choice THEN choice[n] ELSE NoneV]

----------------------------------------------------------------------------
(* Bounds *)

\* the store is unbounded in the code; handlers are explored up to this length
MaxStore == 4

\* longest 'messages' list in a webhook value
MaxMsgs == 2

\* distinct clock readings int(datetime.now().timestamp())
MaxTs == 1

----------------------------------------------------------------------------
(* The message store *)

\* messages_store as constructed at import time
InitialStore ==
    << [ id |-> "init_msg_1", platform |-> "whatsapp",
         sender |-> "New Patient (Sample)", from |-> "+15550009999",
         text |-> "Hello! Is this the NovaSync Dental line?",
         time |-> "import-time", avatar |-> "", unread |-> TRUE ],
       [ id |-> "init_msg_ig_1", platform |-> "instagram",
         sender |-> "instagram_user_123", from |-> "ig_123456789",
         text |-> "Hi, saw your ad on Instagram! DMing you here.",
         time |-> "import-time", avatar |-> "", unread |-> TRUE ] >>

\* list.insert(0, new_msg) with a mutation that appends instead
insert_back(store, new_msg) == Append(store, new_msg)

\* an assignment messages_store[0] = new_msg instead of an insert
replace_front(store, new_msg) ==
    IF store = <<>> THEN <<new_msg>> ELSE <<new_msg>> \o Tail(store)

\* messages_store.insert(0, new_msg)
insert_front(store, new_msg) == <<new_msg>> \o store

\* an exception reaching the handler's `except Exception`
Raised(store) == [store |-> store, raised |-> TRUE]

Done(store) == [store |-> store, raised |-> FALSE]

----------------------------------------------------------------------------
(* Request bodies.  A request is a function with the optional key "json":   *)
(* absent when the request carries no JSON body (request.json is None, or   *)
(* Flask raises inside the handler's try block; both reach the except).     *)

NoBody == EmptyObj

JsonBody(data) == [json |-> data]

HasJson(body) == "json" \in DOMAIN body

\* sequences over S of length lo..hi
SeqsOf(S, lo, hi) == UNION { [1..n -> S] : n \in lo..hi }

----------------------------------------------------------------------------
(* The life of a request: a client sends it (client_request), the route's   *)
(* handler runs from its first line to its return (one action per handler), *)
(* and the response leaves the server (response_sent).                      *)

NoRequest == [op |-> "none"]

\* no response yet: a record without a body
NoResponse == [status |-> 0]

\* a request has arrived and its handler has not run yet
Pending(op) == req.op = op /\ resp.status = 0

\* the handler of the request in `req` has returned `resp`
Served(op) == req.op = op /\ resp.status # 0

\* a handler's outcome: the store, the response and the outbound calls issued
Outcome(store, status, body, calls) ==
    [store |-> store, resp |-> [status |-> status, body |-> body], calls |-> calls]

\* the handler returns: the store, the response and the calls of outcome r
Return(r) ==
    /\ Len(r.store) <= MaxStore
    /\ messages_store' = r.store
    /\ resp' = r.resp
    /\ outbound' = r.calls
    /\ UNCHANGED <<env, req>>

\* a client sends one of the requests rs
client_request(rs) ==
    /\ req = NoRequest
    /\ req' \in rs
    /\ UNCHANGED <<messages_store, env, resp, outbound>>

\* the response has been written to the client
response_sent ==
    /\ resp.status # 0
    /\ req' = NoRequest
    /\ resp' = NoResponse
    /\ outbound' = <<>>
    /\ UNCHANGED <<messages_store, env>>

----------------------------------------------------------------------------
(* POST /api/whatsapp/webhook *)

\* value.get('contacts', [{}])[0].get('profile', {}).get('name', from_number)
\* evaluated on a non-empty contacts list
wa_sender(value, from_number) ==
    Get(Get(Get(value, "contacts", <<EmptyObj>>)[1], "profile", EmptyObj),
        "name", from_number)

\* the canonical Message built by the receive handler
wa_new_msg(value, msg) ==
    LET from_number == Get(msg, "from", NoneV)
        msg_body    == Get(Get(msg, "text", EmptyObj), "body", "")
    IN [ id |-> Get(msg, "id", NoneV), platform |-> "whatsapp",
         sender |-> wa_sender(value, from_number), from |-> from_number,
         text |-> msg_body, time |-> "Just now", avatar |-> "",
         unread |-> TRUE ]

RECURSIVE wa_messages_loop(_, _, _)
\* for msg in value['messages']: ... messages_store.insert(0, new_msg)
\* [][0] on an empty contacts list raises IndexError
wa_messages_loop(value, msgs, store) ==
    IF msgs = <<>> THEN Done(store)
    ELSE IF Len(Get(value, "contacts", <<EmptyObj>>)) = 0 THEN Raised(store)
    ELSE wa_messages_loop(value, Tail(msgs),
                          insert_front(store, wa_new_msg(value, Head(msgs))))

RECURSIVE wa_changes_loop(_, _)
\* for change in entry.get('changes', [])
wa_changes_loop(changes, store) ==
    IF changes = <<>> THEN Done(store)
    ELSE LET value == Get(Head(changes), "value", EmptyObj)
             r == IF "messages" \in DOMAIN value
                  THEN wa_messages_loop(value, value.messages, store)
                  ELSE Done(store)
         IN IF r.raised THEN r ELSE wa_changes_loop(Tail(changes), r.store)

RECURSIVE wa_entries_loop(_, _)
\* for entry in data['entry']
wa_entries_loop(entries, store) ==
    IF entries = <<>> THEN Done(store)
    ELSE LET r == wa_changes_loop(Get(Head(entries), "changes", <<>>), store)
         IN IF r.raised THEN r ELSE wa_entries_loop(Tail(entries), r.store)

\* the try block of whatsapp_webhook; 'entry' in None raises TypeError
whatsapp_webhook_try(body, store) ==
    IF ~HasJson(body) THEN Raised(store)
    ELSE IF "entry" \in DOMAIN body.json
         THEN wa_entries_loop(body.json.entry, store)
         ELSE Done(store)

\* the return statements of a webhook receive handler
webhook_outcome(r) ==
    IF r.raised THEN Outcome(r.store, 500, "Internal Server Error", <<>>)
    ELSE Outcome(r.store, 200, "EVENT_RECEIVED", <<>>)

(* the payloads explored *)

WaMsgs ==
    { [id |-> "wamid.1", from |-> "+15551", text |-> [body |-> "hello"]],
      [id |-> "wamid.2"] }

WaContacts ==
    { <<>>,
      <<EmptyObj>>,
      <<[profile |-> EmptyObj]>>,
      <<[profile |-> [name |-> "Ann"]]>> }

WaValues ==
    {EmptyObj}
    \cup { [contacts |-> c] : c \in WaContacts }
    \cup { [messages |-> ms] : ms \in SeqsOf(WaMsgs, 0, MaxMsgs) }
    \cup { [messages |-> ms, contacts |-> c] :
             ms \in SeqsOf(WaMsgs, 0, MaxMsgs), c \in WaContacts }

WaChanges == {EmptyObj} \cup { [value |-> v] : v \in WaValues }

\* a change carrying one message, used to build multi-change payloads
WaOneMsgChanges ==
    { [value |-> [messages |-> <<m>>]] : m \in WaMsgs }
    \cup { [value |-> [messages |-> <<m>>, contacts |-> <<>>]] : m \in WaMsgs }

WaChangeLists ==
    {<<>>} \cup { <<c>> : c \in WaChanges }
    \cup { <<c, d>> : c \in WaOneMsgChanges, d \in WaOneMsgChanges }

WaEntries == {EmptyObj} \cup { [changes |-> cs] : cs \in WaChangeLists }

WaEntryLists ==
    {<<>>} \cup { <<e>> : e \in WaEntries }
    \cup { <<[changes |-> <<c>>], [changes |-> <<d>>]>> :
             c \in WaOneMsgChanges, d \in WaOneMsgChanges }

WaWebhookBodies ==
    {NoBody, JsonBody(EmptyObj)}
    \cup { JsonBody([entry |-> es]) : es \in WaEntryLists }

WhatsappWebhookRequests == { [op |-> "whatsapp_webhook", body |-> b] : b \in WaWebhookBodies }

whatsapp_webhook ==
    /\ Pending("whatsapp_webhook")
    /\ Return(webhook_outcome(whatsapp_webhook_try(req.body, messages_store)))

----------------------------------------------------------------------------
(* POST /api/instagram/webhook *)

\* process_instagram_event(msg): one event of the 'messaging' shape
process_instagram_event(msg, store) ==
    LET sender_id == Get(Get(msg, "sender", EmptyObj), "id", NoneV)
    IN IF "message" \in DOMAIN msg
       THEN LET message_obj == msg.message
                text == Get(message_obj, "text", "")
                mid  == Get(message_obj, "mid", NoneV)
            IN IF ~Truthy(text) THEN Done(store)
               ELSE Done(insert_front(store,
                        [ id |-> mid, platform |-> "instagram",
                          sender |-> "Instagram User", from |-> sender_id,
                          text |-> text, time |-> "Just now", avatar |-> "",
                          unread |-> TRUE ]))
       ELSE Done(store)

\* process_instagram_message_value(m): the name is called on line 517 and
\* defined nowhere in the program, so the call raises NameError
process_instagram_message_value(m, store) == Raised(store)

RECURSIVE ig_messaging_loop(_, _)
\* for msg in entry['messaging']: process_instagram_event(msg)
ig_messaging_loop(events, store) ==
    IF events = <<>> THEN Done(store)
    ELSE LET r == process_instagram_event(Head(events), store)
         IN IF r.raised THEN r ELSE ig_messaging_loop(Tail(events), r.store)

RECURSIVE ig_value_messages_loop(_, _)
\* for m in val['messages']: process_instagram_message_value(m)
ig_value_messages_loop(msgs, store) ==
    IF msgs = <<>> THEN Done(store)
    ELSE LET r == process_instagram_message_value(Head(msgs), store)
         IN IF r.raised THEN r ELSE ig_value_messages_loop(Tail(msgs), r.store)

RECURSIVE ig_changes_loop(_, _)
\* for change in entry['changes']
ig_changes_loop(changes, store) ==
    IF changes = <<>> THEN Done(store)
    ELSE LET val == Get(Head(changes), "value", EmptyObj)
             r == IF "messages" \in DOMAIN val
                  THEN ig_value_messages_loop(val.messages, store)
                  ELSE Done(store)
         IN IF r.raised THEN r ELSE ig_changes_loop(Tail(changes), r.store)

RECURSIVE ig_entries_loop(_, _)
\* for entry in data['entry']: 'messaging' first, elif 'changes'
ig_entries_loop(entries, store) ==
    IF entries = <<>> THEN Done(store)
    ELSE LET entry == Head(entries)
             r == IF "messaging" \in DOMAIN entry
                  THEN ig_messaging_loop(entry.messaging, store)
                  ELSE IF "changes" \in DOMAIN entry
                       THEN ig_changes_loop(entry.changes, store)
                       ELSE Done(store)
         IN IF r.raised THEN r ELSE ig_entries_loop(Tail(entries), r.store)

\* the try block of instagram_webhook
instagram_webhook_try(body, store) ==
    IF ~HasJson(body) THEN Raised(store)
    ELSE IF "entry" \in DOMAIN body.json
         THEN ig_entries_loop(body.json.entry, store)
         ELSE Done(store)

(* the payloads explored *)

IgEvents ==
    { EmptyObj,
      [sender |-> [id |-> "ig_1"], message |-> [mid |-> "mid.1", text |-> "hi ig"]],
      [sender |-> [id |-> "ig_2"], message |-> [mid |-> "mid.2"]] }

\* messages of the 'changes' shape
IgValueMsgs ==
    { [id |-> "igm.1", from |-> [id |-> "ig_3"], text |-> "dm"],
      [id |-> "igm.2", from |-> [id |-> "ig_3"]] }

IgChanges ==
    {EmptyObj, [value |-> EmptyObj]}
    \cup { [value |-> [messages |-> ms]] : ms \in SeqsOf(IgValueMsgs, 0, MaxMsgs) }

IgEntries ==
    {EmptyObj}
    \cup { [messaging |-> evs] : evs \in SeqsOf(IgEvents, 0, MaxMsgs) }
    \cup { [changes |-> cs] : cs \in {<<>>} \cup { <<c>> : c \in IgChanges } }
    \cup { [messaging |-> <<ev>>, changes |-> <<[value |-> [messages |-> <<m>>]]>>] :
             ev \in IgEvents, m \in IgValueMsgs }

\* a one-event entry of either shape, used to build multi-entry payloads
IgOneEventEntries ==
    { [messaging |-> <<ev>>] : ev \in IgEvents }
    \cup { [changes |-> <<[value |-> [messages |-> <<m>>]]>>] : m \in IgValueMsgs }

IgEntryLists ==
    {<<>>} \cup { <<e>> : e \in IgEntries }
    \cup { <<e, f>> : e \in IgOneEventEntries, f \in IgOneEventEntries }

IgWebhookBodies ==
    {NoBody, JsonBody(EmptyObj)}
    \cup { JsonBody([entry |-> es]) : es \in IgEntryLists }

InstagramWebhookRequests == { [op |-> "instagram_webhook", body |-> b] : b \in IgWebhookBodies }

instagram_webhook ==
    /\ Pending("instagram_webhook")
    /\ Return(webhook_outcome(instagram_webhook_try(req.body, messages_store)))

----------------------------------------------------------------------------
(* POST /api/whatsapp/send and POST /api/instagram/send *)

\* what requests.post does: returns a response with a status, or raises
SendOutcomes == {"status_200", "status_400", "status_500", "raises"}

Timestamps == 1..MaxTs

SendBodies ==
    {NoBody}
    \cup { JsonBody(d) :
             d \in {EmptyObj}
                   \cup { [to |-> t] : t \in {"", "+15551"} }
                   \cup { [text |-> x] : x \in {"", "hi"} }
                   \cup { [to |-> t, text |-> x] :
                            t \in {"", "+15551"}, x \in {"", "hi"} } }

\* lines 401-404: the credentials send_whatsapp_message reads
wa_send_configured ==
    Truthy(getenv("VITE_WHATSAPP_ACCESS_TOKEN")) /\ Truthy(getenv("VITE_WHATSAPP_PHONE_ID"))

\* the body of send_whatsapp_message
send_whatsapp_message_run(body, ts, upstream, store) ==
    IF ~HasJson(body)
    THEN Outcome(store, 500, [error |-> "AttributeError"], <<>>)
    ELSE
    LET data == body.json
        to_number == Get(data, "to", NoneV)
        message_text == Get(data, "text", NoneV)
        new_msg == [ id |-> "sent_" \o ToString(ts), platform |-> "whatsapp",
                     sender |-> "me", to |-> to_number, text |-> message_text,
                     time |-> "Just now", avatar |-> "", unread |-> FALSE ]
        call == [api |-> "graph/{phone_id}/messages", to |-> to_number,
                 text |-> message_text, result |-> upstream]
    IN IF ~Truthy(to_number) \/ ~Truthy(message_text)
       THEN Outcome(store, 400, [error |-> "Missing to or text"], <<>>)
       ELSE IF ~wa_send_configured
       THEN Outcome(insert_front(store, new_msg), 200, new_msg, <<>>)
       ELSE IF upstream = "raises"
       THEN Outcome(store, 500, [error |-> "ConnectionError"], <<call>>)
       ELSE Outcome(insert_front(store, new_msg), 200, new_msg, <<call>>)

SendWhatsappRequests == { [op |-> "send_whatsapp_message", body |-> b] : b \in SendBodies }

send_whatsapp_message ==
    /\ Pending("send_whatsapp_message")
    /\ \E ts \in Timestamps, upstream \in SendOutcomes :
           Return(send_whatsapp_message_run(req.body, ts, upstream, messages_store))

\* lines 561-563: the credential send_instagram_message reads
ig_send_configured == Truthy(getenv("VITE_INSTAGRAM_ACCESS_TOKEN"))

\* the body of send_instagram_message
send_instagram_message_run(body, ts, upstream, store) ==
    IF ~HasJson(body)
    THEN Outcome(store, 500, [error |-> "AttributeError"], <<>>)
    ELSE
    LET data == body.json
        to_id == Get(data, "to", NoneV)
        message_text == Get(data, "text", NoneV)
        new_msg == [ id |-> "sent_ig_" \o ToString(ts), platform |-> "instagram",
                     sender |-> "me", to |-> to_id, text |-> message_text,
                     time |-> "Just now", avatar |-> "", unread |-> FALSE ]
        call == [api |-> "graph/me/messages", to |-> to_id,
                 text |-> message_text, result |-> upstream]
    IN IF ~Truthy(to_id) \/ ~Truthy(message_text)
       THEN Outcome(store, 400, [error |-> "Missing to or text"], <<>>)
       ELSE IF ~ig_send_configured
       THEN Outcome(insert_front(store, new_msg), 200, new_msg, <<>>)
       ELSE IF upstream = "raises"
       THEN Outcome(store, 500, [error |-> "ConnectionError"], <<call>>)
       ELSE Outcome(insert_front(store, new_msg), 200, new_msg, <<call>>)

SendInstagramRequests == { [op |-> "send_instagram_message", body |-> b] : b \in SendBodies }

send_instagram_message ==
    /\ Pending("send_instagram_message")
    /\ \E ts \in Timestamps, upstream \in SendOutcomes :
           Return(send_instagram_message_run(req.body, ts, upstream, messages_store))

----------------------------------------------------------------------------
(* GET /api/messages *)

GetMessagesRequests == { [op |-> "get_messages"] }

\* return jsonify(messages_store)
get_messages_run(store) == Outcome(store, 200, store, <<>>)

get_messages ==
    /\ Pending("get_messages")
    /\ Return(get_messages_run(messages_store))

----------------------------------------------------------------------------
(* The inbox: the handlers that read or write messages_store *)

\* the messaging credentials a deployment may have set
InboxEnvs ==
    { EnvUnset,
      EnvWith([VITE_WHATSAPP_ACCESS_TOKEN |-> "wa-token"]),
      EnvWith([WHATSAPP_ACCESS_TOKEN |-> "wa-token",
               WHATSAPP_PHONE_ID |-> "wa-phone"]),
      EnvWith([VITE_WHATSAPP_ACCESS_TOKEN |-> "wa-token",
               VITE_WHATSAPP_PHONE_ID |-> "wa-phone",
               VITE_INSTAGRAM_ACCESS_TOKEN |-> "ig-token"]) }

Init ==
    /\ messages_store = InitialStore
    /\ env \in InboxEnvs
    /\ req = NoRequest
    /\ resp = NoResponse
    /\ outbound = <<>>

InboxRequests ==
    WhatsappWebhookRequests \cup InstagramWebhookRequests
    \cup SendWhatsappRequests \cup SendInstagramRequests \cup GetMessagesRequests

Next ==
    \/ client_request(InboxRequests)
    \/ response_sent
    \/ whatsapp_webhook
    \/ instagram_webhook
    \/ send_whatsapp_message
    \/ send_instagram_message
    \/ get_messages

Spec == Init /\ [][Next]_vars

----------------------------------------------------------------------------
(* Properties of the inbox *)

\* the handler of the pending request `op` runs in this step
HandlerStep(op) == Pending(op) /\ resp'.status # 0

\* t is s with zero or more elements put in front of it
IsSuffix(s, t) ==
    /\ Len(s) <= Len(t)
    /\ SubSeq(t, Len(t) - Len(s) + 1, Len(t)) = s

RECURSIVE Flatten(_)
Flatten(ss) == IF ss = <<>> THEN <<>> ELSE Head(ss) \o Flatten(Tail(ss))

\* a send request that carries a non-empty destination and text
SendHasToAndText(r) ==
    /\ HasJson(r.body)
    /\ Truthy(Get(r.body.json, "to", NoneV))
    /\ Truthy(Get(r.body.json, "text", NoneV))

\* C1: a send with a non-empty destination and text always answers 200 with
\* an outbound Message (sender 'me', unread false) that it has inserted at
\* the front of the store, whatever the outbound call did.
C1_SendAlwaysStores ==
    [][ \A op \in {"send_whatsapp_message", "send_instagram_message"} :
          (HandlerStep(op) /\ SendHasToAndText(req)) =>
             /\ resp'.status = 200
             /\ messages_store' = <<resp'.body>> \o messages_store
             /\ resp'.body.sender = "me"
             /\ resp'.body.unread = FALSE ]_vars

\* every expected key of a WhatsApp webhook body is there
WaBodyComplete(body) ==
    /\ HasJson(body)
    /\ "entry" \in DOMAIN body.json
    /\ \A i \in DOMAIN body.json.entry :
         LET entry == body.json.entry[i]
         IN /\ "changes" \in DOMAIN entry
            /\ \A j \in DOMAIN entry.changes :
                 LET change == entry.changes[j]
                 IN /\ "value" \in DOMAIN change
                    /\ {"messages", "contacts"} \subseteq DOMAIN change.value
                    /\ Len(change.value.contacts) > 0
                    /\ \A k \in DOMAIN change.value.messages :
                         {"text", "from"} \subseteq DOMAIN change.value.messages[k]

\* every expected key of an Instagram webhook body is there
IgBodyComplete(body) ==
    /\ HasJson(body)
    /\ "entry" \in DOMAIN body.json
    /\ \A i \in DOMAIN body.json.entry :
         LET entry == body.json.entry[i]
         IN \/ /\ "messaging" \in DOMAIN entry
               /\ \A k \in DOMAIN entry.messaging :
                    /\ "message" \in DOMAIN entry.messaging[k]
                    /\ "text" \in DOMAIN entry.messaging[k].message
            \/ /\ "messaging" \notin DOMAIN entry
               /\ "changes" \in DOMAIN entry
               /\ \A j \in DOMAIN entry.changes :
                    /\ "value" \in DOMAIN entry.changes[j]
                    /\ "messages" \in DOMAIN entry.changes[j].value
                    /\ \A k \in DOMAIN entry.changes[j].value.messages :
                         "text" \in DOMAIN entry.changes[j].value.messages[k]

\* C2: a webhook body that misses any expected nested key is answered with
\* the fixed acknowledgement 'EVENT_RECEIVED' and status 200 by both receive
\* handlers; no 500 is produced.
C2_PartialBodyAcknowledged ==
    /\ (Served("whatsapp_webhook") /\ ~WaBodyComplete(req.body)) =>
          (resp.status = 200 /\ resp.body = "EVENT_RECEIVED")
    /\ (Served("instagram_webhook") /\ ~IgBodyComplete(req.body)) =>
          (resp.status = 200 /\ resp.body = "EVENT_RECEIVED")

\* the text-carrying events of one Instagram entry, in either shape
IgEntryTexts(entry) ==
    IF "messaging" \in DOMAIN entry
    THEN SelectSeq([k \in DOMAIN entry.messaging |->
                      Get(Get(entry.messaging[k], "message", EmptyObj), "text", "")],
                   Truthy)
    ELSE IF "changes" \in DOMAIN entry
    THEN SelectSeq(Flatten([j \in DOMAIN entry.changes |->
                      LET ms == Get(Get(entry.changes[j], "value", EmptyObj),
                                    "messages", <<>>)
                      IN [k \in DOMAIN ms |-> Get(ms[k], "text", "")]]),
                   Truthy)
    ELSE <<>>

\* the texts of all text-carrying events of an Instagram body, oldest first
IgBodyTexts(body) ==
    LET entries == Get(body.json, "entry", <<>>)
    IN Flatten([i \in DOMAIN entries |-> IgEntryTexts(entries[i])])

\* C3: the Instagram receive handler walks the 'messaging' array or the
\* 'changes' -> 'value' -> 'messages' array of each entry, inserts one
\* Message with platform 'instagram' at the front of the store for every event
\* that carries text, skips the others, and answers 200 'EVENT_RECEIVED'.
C3_InstagramBothShapes ==
    [][ (HandlerStep("instagram_webhook") /\ HasJson(req.body)) =>
          LET texts == IgBodyTexts(req.body)
              n == Len(texts)
          IN /\ resp'.status = 200
             /\ resp'.body = "EVENT_RECEIVED"
             /\ Len(messages_store') = Len(messages_store) + n
             /\ IsSuffix(messages_store, messages_store')
             /\ \A i \in 1..n :
                  /\ messages_store'[n + 1 - i].platform = "instagram"
                  /\ messages_store'[n + 1 - i].text = texts[i] ]_vars

\* C5: no operation deletes or reorders stored messages: the store before a
\* step is a suffix of the store after it (new messages go to the front), and
\* GET /api/messages returns the whole store in order and leaves it unchanged.
C5_StoreOnlyGrowsAtFront ==
    [][ /\ IsSuffix(messages_store, messages_store')
        /\ HandlerStep("get_messages") =>
              /\ resp'.status = 200
              /\ resp'.body = messages_store
              /\ messages_store' = messages_store ]_vars

\* a read of the inbox after messages were added returns all of them
C5_Witness ==
    /\ Served("get_messages")
    /\ Len(messages_store) > Len(InitialStore)
    /\ resp.body = messages_store
    /\ IsSuffix(InitialStore, messages_store)

\* the (value, message) pairs under entry -> changes -> value -> messages
WaFound(body) ==
    LET entries == Get(body.json, "entry", <<>>)
    IN Flatten([i \in DOMAIN entries |->
         LET changes == Get(entries[i], "changes", <<>>)
         IN Flatten([j \in DOMAIN changes |->
              LET value == Get(changes[j], "value", EmptyObj)
                  ms == Get(value, "messages", <<>>)
              IN [k \in DOMAIN ms |-> [value |-> value, msg |-> ms[k]]]])])

\* the profile name of the contacts block of a value, when there is one
WaProfileName(value, phone) ==
    LET contacts == Get(value, "contacts", <<>>)
    IN IF Len(contacts) > 0 /\ "profile" \in DOMAIN contacts[1]
          /\ "name" \in DOMAIN contacts[1].profile
       THEN contacts[1].profile.name
       ELSE phone

\* C7: the WhatsApp receive handler inserts one Message at the front of the
\* store per message found under entry -> changes -> value -> messages, each
\* with platform 'whatsapp', unread true, 'from' the raw sender phone and
\* 'sender' the contacts profile name when present, else the raw phone.
C7_WhatsappOnePerMessage ==
    [][ (HandlerStep("whatsapp_webhook") /\ HasJson(req.body)) =>
          LET found == WaFound(req.body)
              n == Len(found)
          IN /\ Len(messages_store') = Len(messages_store) + n
             /\ IsSuffix(messages_store, messages_store')
             /\ \A i \in 1..n :
                  LET m == messages_store'[n + 1 - i]
                      phone == Get(found[i].msg, "from", NoneV)
                  IN /\ m.platform = "whatsapp"
                     /\ m.unread = TRUE
                     /\ m.from = phone
                     /\ m.sender = WaProfileName(found[i].value, phone) ]_vars

----------------------------------------------------------------------------
(* GET /api/whatsapp/webhook and GET /api/instagram/webhook *)

\* the literal default of both verify tokens
DefaultVerifyToken == "nova_sync_secret"

\* os.getenv('WHATSAPP_VERIFY_TOKEN', 'nova_sync_secret')
wa_verify_token == getenv_default("WHATSAPP_VERIFY_TOKEN", DefaultVerifyToken)

\* a verify token that ignores the WhatsApp one
ig_verify_token_no_fallback == getenv_default("INSTAGRAM_VERIFY_TOKEN", DefaultVerifyToken)

\* os.getenv('INSTAGRAM_VERIFY_TOKEN', os.getenv('WHATSAPP_VERIFY_TOKEN', 'nova_sync_secret'))
ig_verify_token == getenv_default("INSTAGRAM_VERIFY_TOKEN", wa_verify_token)

\* the body shared by verify_whatsapp_webhook and verify_instagram_webhook.
\* `return challenge, 200` with no hub.challenge in the query returns None as
\* the body, which Flask refuses with TypeError: the client gets a 500.
verify_webhook_run(args, verify_token, store) ==
    LET mode == Get(args, "hub.mode", NoneV)
        token == Get(args, "hub.verify_token", NoneV)
        challenge == Get(args, "hub.challenge", NoneV)
    IN IF Truthy(mode) /\ Truthy(token)
       THEN IF mode = "subscribe" /\ token = verify_token
            THEN IF challenge = NoneV
                 THEN Outcome(store, 500, "Internal Server Error", <<>>)
                 ELSE Outcome(store, 200, challenge, <<>>)
            ELSE Outcome(store, 403, "Forbidden", <<>>)
       ELSE Outcome(store, 400, "Bad Request", <<>>)

verify_whatsapp_webhook ==
    /\ Pending("verify_whatsapp_webhook")
    /\ Return(verify_webhook_run(req.args, wa_verify_token, messages_store))

verify_instagram_webhook ==
    /\ Pending("verify_instagram_webhook")
    /\ Return(verify_webhook_run(req.args, ig_verify_token, messages_store))

(* the query strings explored *)

\* the functions with a domain D' \subseteq D and values in V
PartialFns(D, V) == UNION { [D2 -> V] : D2 \in SUBSET D }

VerifyModes == {"", "subscribe", "unsubscribe"}

VerifyTokens == {"", DefaultVerifyToken, "wa-secret", "ig-secret"}

VerifyChallenges == {"", "1158201444"}

VerifyArgs ==
    { a \in PartialFns({"hub.mode", "hub.verify_token", "hub.challenge"},
                       VerifyModes \cup VerifyTokens \cup VerifyChallenges) :
        /\ "hub.mode" \in DOMAIN a => a["hub.mode"] \in VerifyModes
        /\ "hub.verify_token" \in DOMAIN a => a["hub.verify_token"] \in VerifyTokens
        /\ "hub.challenge" \in DOMAIN a => a["hub.challenge"] \in VerifyChallenges }

VerifyRequests ==
    { [op |-> o, args |-> a] :
        o \in {"verify_whatsapp_webhook", "verify_instagram_webhook"}, a \in VerifyArgs }

\* the verify tokens a deployment may have set (set-but-empty included)
VerifyEnvs ==
    { EnvWith(c) : c \in PartialFns({"WHATSAPP_VERIFY_TOKEN", "INSTAGRAM_VERIFY_TOKEN"},
                                    {"", "wa-secret", "ig-secret"}) }

InitVerify ==
    /\ messages_store = InitialStore
    /\ env \in VerifyEnvs
    /\ req = NoRequest
    /\ resp = NoResponse
    /\ outbound = <<>>

NextVerify ==
    \/ client_request(VerifyRequests)
    \/ response_sent
    \/ verify_whatsapp_webhook
    \/ verify_instagram_webhook

SpecVerify == InitVerify /\ [][NextVerify]_vars

(* Properties of the verification endpoints *)

\* the query parameter k was supplied with a non-empty value
Supplied(args, k) == k \in DOMAIN args /\ args[k] # ""

\* the verify token configured for an endpoint: the Instagram one falls back
\* to the WhatsApp one and then to the literal default
ConfiguredToken(op) ==
    LET wa == IF env["WHATSAPP_VERIFY_TOKEN"] # NoneV
              THEN env["WHATSAPP_VERIFY_TOKEN"] ELSE "nova_sync_secret"
    IN IF op = "verify_whatsapp_webhook" THEN wa
       ELSE IF env["INSTAGRAM_VERIFY_TOKEN"] # NoneV
            THEN env["INSTAGRAM_VERIFY_TOKEN"] ELSE wa

----------------------------------------------------------------------------
(* POST /api/vapi/webhook: the voice-agent tool dispatcher *)

\* most tool calls in one webhook body
MaxCalls == 2

CLINIC_TZ == "America/New_York"

\* a or b, on str-or-None values
Or(a, b) == IF Truthy(a) THEN a ELSE b

(* datetime values: [y, mo, d, h, mi, tz], tz = "naive" when tzinfo is None *)

DateTime(y, mo, d, h, mi, tz) == [y |-> y, mo |-> mo, d |-> d, h |-> h, mi |-> mi, tz |-> tz]

\* the strings datetime.fromisoformat accepts, among those explored
IsoTable ==
    { [text |-> "2024-05-01T14:00", value |-> DateTime(2024, 5, 1, 14, 0, "naive")],
      [text |-> "2024-05-01T23:30", value |-> DateTime(2024, 5, 1, 23, 30, "naive")],
      [text |-> "2024-12-31T14:00", value |-> DateTime(2024, 12, 31, 14, 0, "naive")],
      [text |-> "2024-12-31T23:30", value |-> DateTime(2024, 12, 31, 23, 30, "naive")],
      [text |-> "2024-11-03T01:30", value |-> DateTime(2024, 11, 3, 1, 30, "naive")],
      [text |-> "2024-03-10T01:30", value |-> DateTime(2024, 3, 10, 1, 30, "naive")],
      [text |-> "2024-05-02T09:15:00", value |-> DateTime(2024, 5, 2, 9, 15, "naive")],
      [text |-> "2024-05-02T09:15:00+00:00", value |-> DateTime(2024, 5, 2, 9, 15, "+00:00")] }

\* datetime.fromisoformat(s): the value, or ValueError
fromisoformat(s) ==
    IF \E e \in IsoTable : e.text = s
    THEN [ok |-> TRUE, value |-> (CHOOSE e \in IsoTable : e.text = s).value]
    ELSE [ok |-> FALSE]

\* 'T' in s and ':' in s, for the time strings explored
ContainsT(s) == s \in {"2024-05-02T09:15:00", "2024-05-02T09:15:00+00:00"}

ContainsColon(s) == s \in {"14:00", "23:30", "01:30", "2024-05-02T09:15:00", "2024-05-02T09:15:00+00:00"}

IsLeap(y) == (y % 4 = 0 /\ y % 100 # 0) \/ y % 400 = 0

DaysInMonth(y, mo) ==
    IF mo = 2 THEN (IF IsLeap(y) THEN 29 ELSE 28)
    ELSE IF mo \in {4, 6, 9, 11} THEN 30 ELSE 31

\* dt + timedelta(hours=1)
plus_one_hour(dt) ==
    IF dt.h < 23 THEN [dt EXCEPT !.h = dt.h + 1]
    ELSE IF dt.d < DaysInMonth(dt.y, dt.mo) THEN [dt EXCEPT !.h = 0, !.d = dt.d + 1]
    ELSE IF dt.mo < 12 THEN [dt EXCEPT !.h = 0, !.d = 1, !.mo = dt.mo + 1]
    ELSE [dt EXCEPT !.h = 0, !.d = 1, !.mo = 1, !.y = dt.y + 1]

\* lines 259-260: start_time.replace(tzinfo=ZoneInfo(CLINIC_TZ)) when naive
force_clinic_tz(dt) == IF dt.tz = "naive" THEN [dt EXCEPT !.tz = CLINIC_TZ] ELSE dt

\* ZoneInfo("America/New_York"): the days in March and November on which
\* daylight saving time starts (02:00 -> 03:00) and ends (02:00 -> 01:00)
DstDays == [y \in {2024, 2025} |-> IF y = 2024 THEN [start |-> 10, end |-> 3]
                                               ELSE [start |-> 9, end |-> 2]]

\* dt.utcoffset() in minutes for an aware dt (fold = 0): a fixed offset, or for
\* the clinic zone -240 on wall times from 03:00 of the start day up to 02:00
\* of the end day and -300 otherwise
utcoffset(dt) ==
    IF dt.tz # CLINIC_TZ THEN 0
    ELSE LET key == dt.mo * 10000 + dt.d * 100 + dt.h
         IN IF key >= 30000 + DstDays[dt.y].start * 100 + 3
               /\ key < 110000 + DstDays[dt.y].end * 100 + 2
            THEN -240 ELSE -300

\* dt.isoformat() of an aware dt: the wall-clock fields and the UTC offset
isoformat(dt) ==
    [y |-> dt.y, mo |-> dt.mo, d |-> dt.d, h |-> dt.h, mi |-> dt.mi, offset |-> utcoffset(dt)]

(* tool-call arguments: a JSON value, or a string holding JSON text *)

\* lines 226-232: json.loads of a string (on failure {}), else the value itself;
\* mapping is FALSE when the result is not a dict and has no .get
parse_args(a) ==
    CASE a.form = "object"       -> [mapping |-> TRUE, value |-> a.value]
      [] a.form = "json_string"  -> [mapping |-> TRUE, value |-> a.value]
      [] a.form = "bad_string"   -> [mapping |-> TRUE, value |-> EmptyObj]
      [] a.form = "array_string" -> [mapping |-> FALSE]
      [] a.form = "array"        -> [mapping |-> FALSE]

\* the result of one tool call: its text (the parts of the f-string), the
\* outbound calls it issued, and whether an exception left the handler
ToolResult(text, calls) == [raised |-> FALSE, text |-> text, calls |-> calls]

ToolRaised == [raised |-> TRUE, text |-> <<>>, calls |-> <<>>]

\* lines 237-277: HANDLER 1, book_appointment / schedule_dental_appointment
\* upstream: what the calendar API does: get_google_service raises
\* ("no_service"), or insert().execute() returns ("ok") or raises
book_appointment(a, upstream) ==
    IF ~a.mapping THEN ToolRaised
    ELSE
    LET args == a.value
        name == Or(Get(args, "name", NoneV), Get(args, "customer_name", NoneV))
        day == Or(Get(args, "day", NoneV), Get(args, "date", NoneV))
        time_iso == Get(args, "time", NoneV)
        procedure == Or(Get(args, "procedure_type", NoneV), "Dental Checkup")
    IN IF ~(Truthy(day) /\ Truthy(time_iso))
       THEN ToolResult(<<"Error", ": Missing day or time.">>, <<>>)
       ELSE
       LET parsed == IF ~ContainsT(time_iso) /\ ContainsColon(time_iso)
                     THEN fromisoformat(day \o "T" \o time_iso)
                     ELSE fromisoformat(time_iso)
       IN IF upstream = "no_service"
          THEN ToolResult(<<"Failed to book calendar event: ", "credentials">>, <<>>)
          ELSE IF ~parsed.ok
          THEN ToolResult(<<"Failed to book calendar event: ", "ValueError">>, <<>>)
          ELSE
          LET start_time == force_clinic_tz(parsed.value)
              end_time == plus_one_hour(start_time)
              event == [ summary |-> <<"Appt: ", name, " (", procedure, ")">>,
                         description |-> <<"Booked via AI Agent. Procedure: ", procedure>>,
                         start |-> [dateTime |-> isoformat(start_time), timeZone |-> CLINIC_TZ],
                         end |-> [dateTime |-> isoformat(end_time), timeZone |-> CLINIC_TZ] ]
              call == [api |-> "calendar.events.insert", body |-> event, result |-> upstream]
          IN IF upstream = "ok"
             THEN ToolResult(<<"Success! Appointment booked for ", day, " at ", time_iso, ".">>,
                             <<call>>)
             ELSE ToolResult(<<"Failed to book calendar event: ", "HttpError">>, <<call>>)

\* lines 292-295: the credentials the send_whatsapp_details tool reads
tool_wa_configured ==
    /\ Truthy(Or(getenv("VITE_WHATSAPP_ACCESS_TOKEN"), getenv("WHATSAPP_ACCESS_TOKEN")))
    /\ Truthy(Or(getenv("VITE_WHATSAPP_PHONE_ID"), getenv("WHATSAPP_PHONE_ID")))

\* lines 280-312: HANDLER 2, send_whatsapp_details (all of it inside a try)
\* upstream: what requests.post does; its status is not looked at
send_whatsapp_details(a, upstream) ==
    IF ~a.mapping
    THEN ToolResult(<<"Failed to send WhatsApp: ", "AttributeError">>, <<>>)
    ELSE
    LET args == a.value
        phone == Get(args, "phone_number", NoneV)
        proc_type == Get(args, "procedure_type", "services")
        call == [api |-> "graph/{phone_id}/messages", to |-> phone,
                 text |-> <<"Hello! Here are the details about ", proc_type,
                            " at NovaSync Dental...">>,
                 result |-> upstream]
    IN IF ~Truthy(phone)
       THEN ToolResult(<<"Error", ": No phone number provided.">>, <<>>)
       ELSE IF ~tool_wa_configured
       THEN ToolResult(<<"WhatsApp skipped (credentials missing).">>, <<>>)
       ELSE IF upstream = "raises"
       THEN ToolResult(<<"Failed to send WhatsApp: ", "ConnectionError">>, <<call>>)
       ELSE ToolResult(<<"WhatsApp sent successfully.">>, <<call>>)

\* lines 315-320: HANDLER 3, schedule_followup; args.get is not in a try
schedule_followup(a) ==
    IF ~a.mapping THEN ToolRaised ELSE ToolResult(<<"Followup noted.">>, <<>>)

\* lines 323-326: HANDLER 4, update_lead_data; args is only printed
update_lead_data(a) == ToolResult(<<"Lead data updated.">>, <<>>)

\* lines 218-335: one iteration of `for tool_call in tool_calls`
run_tool_call(tool_call, upstream) ==
    IF ~({"function", "id"} \subseteq DOMAIN tool_call)
       \/ ~({"name", "arguments"} \subseteq DOMAIN tool_call.function)
    THEN ToolRaised
    ELSE
    LET function_name == tool_call.function.name
        a == parse_args(tool_call.function.arguments)
    IN CASE function_name \in {"book_appointment", "schedule_dental_appointment"} ->
              book_appointment(a, upstream)
         [] function_name = "send_whatsapp_details" -> send_whatsapp_details(a, upstream)
         [] function_name = "schedule_followup" -> schedule_followup(a)
         [] function_name = "update_lead_data" -> update_lead_data(a)
         [] OTHER -> ToolResult(<<"Function ", function_name, " executed (simulated).">>, <<>>)

RECURSIVE tool_calls_loop(_, _, _, _, _)
\* the loop over tool_calls: results and outbound calls so far, or an exception
tool_calls_loop(tool_calls, i, upstreams, results, calls) ==
    IF i > Len(tool_calls) THEN [raised |-> FALSE, results |-> results, calls |-> calls]
    ELSE LET r == run_tool_call(tool_calls[i], upstreams[i])
         IN IF r.raised THEN [raised |-> TRUE, results |-> results, calls |-> calls]
            ELSE tool_calls_loop(tool_calls, i + 1, upstreams,
                     Append(results, [toolCallId |-> tool_calls[i].id, result |-> r.text]),
                     calls \o r.calls)

\* the body of vapi_webhook
vapi_webhook_run(body, upstreams, store) ==
    IF ~HasJson(body) THEN Outcome(store, 500, [error |-> "TypeError"], <<>>)
    ELSE
    LET data == body.json
    IN IF "message" \in DOMAIN data /\ "type" \in DOMAIN data.message
          /\ data.message.type = "tool-calls"
       THEN IF "toolCalls" \notin DOMAIN data.message
            THEN Outcome(store, 500, [error |-> "KeyError"], <<>>)
            ELSE LET r == tool_calls_loop(data.message.toolCalls, 1, upstreams, <<>>, <<>>)
                 IN IF r.raised
                    THEN Outcome(store, 500, [error |-> "exception"], r.calls)
                    ELSE Outcome(store, 200, [results |-> r.results], r.calls)
       ELSE Outcome(store, 200, [status |-> "ignored"], <<>>)

\* what an upstream API (calendar, WhatsApp) does with a call; "no_service"
\* is the calendar client failing to build and means "ok" to requests.post
UpstreamOutcomes == {"ok", "error_status", "raises", "no_service"}

vapi_webhook ==
    /\ Pending("vapi_webhook")
    /\ \E upstreams \in [1..MaxCalls -> UpstreamOutcomes] :
           Return(vapi_webhook_run(req.body, upstreams, messages_store))

(* the tool calls explored *)

BookingArgs ==
    { [name |-> "Ann", day |-> "2024-05-01", time |-> "14:00"],
      [customer_name |-> "Bob", date |-> "2024-12-31", time |-> "23:30",
       procedure_type |-> "Whitening"],
      [name |-> "Cy", day |-> "2024-05-01", time |-> "2024-05-02T09:15:00+00:00"],
      [name |-> "Di", day |-> "2024-05-01", time |-> "2pm"],
      [name |-> "Gus", day |-> "2024-11-03", time |-> "01:30"],
      [name |-> "Hal", day |-> "2024-03-10", time |-> "01:30"],
      [name |-> "Ed", day |-> "2024-05-01"],
      [name |-> "Flo", time |-> "14:00"],
      EmptyObj }

ToolFunctions ==
    { [name |-> "book_appointment", arguments |-> [form |-> "object", value |-> v]] :
        v \in BookingArgs }
    \cup { [name |-> "schedule_dental_appointment", arguments |-> a] :
             a \in { [form |-> "json_string", value |-> [customer_name |-> "Bob",
                        date |-> "2024-05-01", time |-> "2024-05-02T09:15:00"]],
                     [form |-> "bad_string"],
                     [form |-> "array_string"] } }
    \cup { [name |-> "book_appointment", arguments |-> [form |-> "array"]] }
    \cup { [name |-> "send_whatsapp_details", arguments |-> a] :
             a \in { [form |-> "object", value |-> [phone_number |-> "+15551",
                        procedure_type |-> "Implants"]],
                     [form |-> "object", value |-> EmptyObj],
                     [form |-> "array"] } }
    \cup { [name |-> "schedule_followup", arguments |-> a] :
             a \in { [form |-> "object", value |-> [reason |-> "checkup", date |-> "2024-06-01"]],
                     [form |-> "array"] } }
    \cup { [name |-> "update_lead_data", arguments |-> [form |-> "array"]],
           [name |-> "transfer_call", arguments |-> [form |-> "object", value |-> EmptyObj]] }

\* the i-th call of a body carries the id "call_i"
ToolCallLists ==
    { [i \in DOMAIN fs |-> [id |-> "call_" \o ToString(i), function |-> fs[i]]] :
        fs \in SeqsOf(ToolFunctions, 0, MaxCalls) }

VapiWebhookBodies ==
    { NoBody, JsonBody(EmptyObj), JsonBody([message |-> EmptyObj]),
      JsonBody([message |-> [type |-> "status-update"]]),
      JsonBody([message |-> [type |-> "tool-calls"]]),
      JsonBody([message |-> [type |-> "tool-calls",
                             toolCalls |-> <<[function |-> [name |-> "update_lead_data",
                                 arguments |-> [form |-> "object", value |-> EmptyObj]]]>>]]) }
    \cup { JsonBody([message |-> [type |-> "tool-calls", toolCalls |-> tcs]]) :
             tcs \in ToolCallLists }

VapiWebhookRequests == { [op |-> "vapi_webhook", body |-> b] : b \in VapiWebhookBodies }

VapiEnvs ==
    { EnvUnset,
      EnvWith([VITE_WHATSAPP_ACCESS_TOKEN |-> "wa-token"]),
      EnvWith([VITE_WHATSAPP_ACCESS_TOKEN |-> "wa-token", VITE_WHATSAPP_PHONE_ID |-> "wa-phone"]),
      EnvWith([WHATSAPP_ACCESS_TOKEN |-> "wa-token", WHATSAPP_PHONE_ID |-> "wa-phone"]) }

InitVapi ==
    /\ messages_store = InitialStore
    /\ env \in VapiEnvs
    /\ req = NoRequest
    /\ resp = NoResponse
    /\ outbound = <<>>

NextVapi ==
    \/ client_request(VapiWebhookRequests)
    \/ response_sent
    \/ vapi_webhook

SpecVapi == InitVapi /\ [][NextVapi]_vars

(* Properties of the tool dispatcher *)

\* a 'tool-calls' body whose calls all carry an id, a function name and arguments
IsToolCallsBody(body) ==
    /\ HasJson(body)
    /\ "message" \in DOMAIN body.json
    /\ "type" \in DOMAIN body.json.message
    /\ body.json.message.type = "tool-calls"
    /\ "toolCalls" \in DOMAIN body.json.message
    /\ \A i \in DOMAIN body.json.message.toolCalls :
         LET tc == body.json.message.toolCalls[i]
         IN {"id", "function"} \subseteq DOMAIN tc
            /\ {"name", "arguments"} \subseteq DOMAIN tc.function

\* a booking call (either alias) whose arguments lack the day or the time
IsBookingWithoutDayOrTime(tc) ==
    /\ tc.function.name \in {"book_appointment", "schedule_dental_appointment"}
    /\ tc.function.arguments.form \in {"object", "json_string"}
    /\ LET v == tc.function.arguments.value
       IN ~(({"day", "date"} \cap DOMAIN v) # {} /\ "time" \in DOMAIN v)

\* C4: a 'tool-calls' body is answered 200 with exactly one result per
\* submitted tool call, in submission order, each keyed by the call's id,
\* whether or not the handlers succeeded; a booking call without day or time
\* gets a result text beginning with 'Error'.
C4_OneResultPerToolCall ==
    (Served("vapi_webhook") /\ IsToolCallsBody(req.body)) =>
        LET tcs == req.body.json.message.toolCalls
        IN /\ resp.status = 200
           /\ Len(resp.body.results) = Len(tcs)
           /\ \A i \in DOMAIN tcs :
                /\ resp.body.results[i].toolCallId = tcs[i].id
                /\ IsBookingWithoutDayOrTime(tcs[i]) =>
                      Head(resp.body.results[i].result) = "Error"

\* tool call i of the request is a booking whose arguments carry a day and a time
IsBookingWithDayAndTime(tc) ==
    /\ tc.function.name \in {"book_appointment", "schedule_dental_appointment"}
    /\ tc.function.arguments.form \in {"object", "json_string"}
    /\ ~IsBookingWithoutDayOrTime(tc)

\* the result text says the handler issued an outbound call
IssuedCall(text) ==
    \/ Head(text) \in {"Success! Appointment booked for ", "WhatsApp sent successfully."}
    \/ text \in {<<"Failed to book calendar event: ", "HttpError">>,
                 <<"Failed to send WhatsApp: ", "ConnectionError">>}

\* the position in the outbound log of the call issued by tool call i
CallIndex(i) == Cardinality({j \in 1..i : IssuedCall(resp.body.results[j].result)})

\* the days and the times of day named by the booking arguments explored
DayTable ==
    { [text |-> "2024-05-01", y |-> 2024, mo |-> 5, d |-> 1],
      [text |-> "2024-12-31", y |-> 2024, mo |-> 12, d |-> 31],
      [text |-> "2024-11-03", y |-> 2024, mo |-> 11, d |-> 3],
      [text |-> "2024-03-10", y |-> 2024, mo |-> 3, d |-> 10] }

TimeTable ==
    { [text |-> "14:00", h |-> 14, mi |-> 0],
      [text |-> "23:30", h |-> 23, mi |-> 30],
      [text |-> "01:30", h |-> 1, mi |-> 30] }

FullIsoTable ==
    { [text |-> "2024-05-02T09:15:00", y |-> 2024, mo |-> 5, d |-> 2, h |-> 9, mi |-> 15,
       aware |-> FALSE, offset |-> 0],
      [text |-> "2024-05-02T09:15:00+00:00", y |-> 2024, mo |-> 5, d |-> 2, h |-> 9, mi |-> 15,
       aware |-> TRUE, offset |-> 0] }

RECURSIVE DaysBeforeMonth(_, _)
DaysBeforeMonth(y, mo) ==
    IF mo = 1 THEN 0 ELSE DaysBeforeMonth(y, mo - 1) + DaysInMonth(y, mo - 1)

\* the instant an ISO timestamp with offset names, in minutes since
\* 2024-01-01T00:00 UTC
Instant(t) ==
    LET days == (IF t.y = 2024 THEN 0 ELSE 366) + DaysBeforeMonth(t.y, t.mo) + (t.d - 1)
    IN (days * 24 + t.h) * 60 + t.mi - t.offset

\* the wall-clock fields of timestamp t are those of entry e
SameWallClock(t, e) ==
    t.y = e.y /\ t.mo = e.mo /\ t.d = e.d /\ t.h = e.h /\ t.mi = e.mi

\* the start the claim gives the event of a booking with this day and time
StartsAtGivenTime(ev, day, time) ==
    IF \E e \in FullIsoTable : e.text = time
    THEN LET e == CHOOSE e \in FullIsoTable : e.text = time
         IN /\ SameWallClock(ev.start.dateTime, e)
            /\ e.aware => ev.start.dateTime.offset = e.offset
            /\ ~e.aware => ev.start.dateTime.offset \in {-240, -300}
    ELSE LET dd == CHOOSE e \in DayTable : e.text = day
             tt == CHOOSE e \in TimeTable : e.text = time
         IN /\ SameWallClock(ev.start.dateTime,
                   [y |-> dd.y, mo |-> dd.mo, d |-> dd.d, h |-> tt.h, mi |-> tt.mi])
            /\ ev.start.dateTime.offset \in {-240, -300}

\* C11: for a booking tool call (either alias) with a day and a time, the
\* created calendar event starts at the given time (a bare HH:MM combined with
\* the day, a full ISO timestamp as given, a start without timezone placed in
\* the clinic timezone) and ends exactly one hour later; for day 2024-05-01
\* and time 14:00 it runs from 14:00 to 15:00 clinic time.
C11_BookingLastsOneHour ==
    (Served("vapi_webhook") /\ IsToolCallsBody(req.body) /\ resp.status = 200) =>
        \A i \in DOMAIN req.body.json.message.toolCalls :
            LET tc == req.body.json.message.toolCalls[i]
                text == resp.body.results[i].result
            IN (IsBookingWithDayAndTime(tc) /\ IssuedCall(text)) =>
                 LET ev == outbound[CallIndex(i)].body
                     v == tc.function.arguments.value
                     day == IF "day" \in DOMAIN v THEN v.day ELSE v.date
                 IN /\ StartsAtGivenTime(ev, day, v.time)
                    /\ ev.start.timeZone = CLINIC_TZ
                    /\ Instant(ev.end.dateTime) = Instant(ev.start.dateTime) + 60
                    /\ (day = "2024-05-01" /\ v.time = "14:00") =>
                          /\ ev.start.dateTime = [y |-> 2024, mo |-> 5, d |-> 1, h |-> 14,
                                                   mi |-> 0, offset |-> -240]
                          /\ ev.end.dateTime = [y |-> 2024, mo |-> 5, d |-> 1, h |-> 15,
                                                 mi |-> 0, offset |-> -240]

----------------------------------------------------------------------------
(* POST /api/vapi/initiate-call *)

\* what requests.post('https://api.vapi.ai/call/phone') does: it raises, or
\* returns a status and a text that may or may not be JSON
VapiCallResponses ==
    { [raises |-> TRUE] }
    \cup { [raises |-> FALSE, status_code |-> c, text |-> "{id: call_1}",
            json |-> [id |-> "call_1"]] : c \in {200, 201, 400, 500} }
    \cup { [raises |-> FALSE, status_code |-> c, text |-> "<html>Bad Gateway</html>"] :
             c \in {200, 201, 502} }

\* lines 69-70 with the upstream status forwarded as it came
initiate_call_success_verbatim(response) == response.status_code

\* lines 69-70: the status returned for an upstream 200 or 201
initiate_call_success(response) == 200

\* the body of initiate_call
initiate_call_run(body, upstream, store) ==
    IF ~HasJson(body) THEN Outcome(store, 500, [error |-> "AttributeError"], <<>>)
    ELSE
    LET data == body.json
        phone_number == Get(data, "phoneNumber", NoneV)
        name == Get(data, "name", "Test User")
        variables == Get(data, "variables", EmptyObj)
        api_key == getenv("VAPI_API_KEY")
        assistant_id == getenv("VAPI_ASSISTANT_ID")
        phone_number_id == getenv("VAPI_PHONE_NUMBER")
        base == [ assistantId |-> assistant_id, phoneNumberId |-> phone_number_id,
                  customer |-> [number |-> phone_number, name |-> name] ]
        payload == IF variables # EmptyObj
                   THEN [ assistantId |-> assistant_id, phoneNumberId |-> phone_number_id,
                          customer |-> [number |-> phone_number, name |-> name],
                          assistantOverrides |-> [variableValues |-> variables] ]
                   ELSE base
        call == [api |-> "vapi/call/phone", payload |-> payload, result |-> upstream]
    IN IF ~Truthy(phone_number)
       THEN Outcome(store, 400, [error |-> "Phone number is required"], <<>>)
       ELSE IF ~Truthy(api_key) \/ ~Truthy(assistant_id) \/ ~Truthy(phone_number_id)
       THEN Outcome(store, 500,
                    [error |-> "Server misconfiguration: Missing Vapi env vars"], <<>>)
       ELSE IF upstream.raises
       THEN Outcome(store, 500, [error |-> "ConnectionError"], <<call>>)
       ELSE IF upstream.status_code \in {200, 201}
       THEN IF "json" \in DOMAIN upstream
            THEN Outcome(store, initiate_call_success(upstream), upstream.json, <<call>>)
            ELSE Outcome(store, 500, [error |-> "JSONDecodeError"], <<call>>)
       ELSE Outcome(store, upstream.status_code,
                    [error |-> "Vapi Error", details |-> upstream.text], <<call>>)

initiate_call ==
    /\ Pending("initiate_call")
    /\ \E upstream \in VapiCallResponses :
           Return(initiate_call_run(req.body, upstream, messages_store))

(* the requests explored *)

InitiateCallBodies ==
    {NoBody, JsonBody(EmptyObj)}
    \cup { JsonBody(d) :
             d \in { [phoneNumber |-> ""],
                     [name |-> "Ann"],
                     [phoneNumber |-> "+15551"],
                     [phoneNumber |-> "+15551", name |-> "Ann"],
                     [phoneNumber |-> "+15551", variables |-> EmptyObj],
                     [phoneNumber |-> "+15551", name |-> "Ann",
                      variables |-> [procedure |-> "Implants"]] } }

InitiateCallRequests == { [op |-> "initiate_call", body |-> b] : b \in InitiateCallBodies }

CallEnvs ==
    { EnvWith(c) : c \in PartialFns({"VAPI_API_KEY", "VAPI_ASSISTANT_ID", "VAPI_PHONE_NUMBER"},
                                    {"set"}) }

InitCall ==
    /\ messages_store = InitialStore
    /\ env \in CallEnvs
    /\ req = NoRequest
    /\ resp = NoResponse
    /\ outbound = <<>>

NextCall ==
    \/ client_request(InitiateCallRequests)
    \/ response_sent
    \/ initiate_call

SpecCall == InitCall /\ [][NextCall]_vars

(* Properties of call initiation *)

\* the voice platform is fully configured
VapiConfigured ==
    \A n \in {"VAPI_API_KEY", "VAPI_ASSISTANT_ID", "VAPI_PHONE_NUMBER"} : env[n] # NoneV

\* the request carries a phone number
HasPhoneNumber(r) == HasJson(r.body) /\ Truthy(Get(r.body.json, "phoneNumber", NoneV))

\* the platform answered the one call the handler issued
UpstreamAnswered == Len(outbound) = 1 /\ ~outbound[1].result.raises

\* C10 as stated: with a phone number and full configuration an upstream 200
\* is returned as 200 and an upstream 201 as 201, with the upstream body; any
\* other upstream status is returned as is with an error envelope carrying the
\* upstream body; a missing phone number yields 400 and no outbound call.
C10_StatusForwardedVerbatim ==
    Served("initiate_call") =>
       /\ (HasPhoneNumber(req) /\ VapiConfigured /\ UpstreamAnswered
             /\ "json" \in DOMAIN outbound[1].result) =>
            LET up == outbound[1].result
            IN /\ resp.status = up.status_code
               /\ up.status_code \in {200, 201} => resp.body = up.json
               /\ up.status_code \notin {200, 201} =>
                     (resp.body.error = "Vapi Error" /\ resp.body.details = up.text)
       /\ (HasJson(req.body) /\ ~HasPhoneNumber(req)) =>
            (resp.status = 400 /\ outbound = <<>>)

\* C10 (amended): with a phone number and full configuration an upstream 200
\* or 201 with a JSON body is returned as 200 with that body (500 when the
\* body is not JSON); any other upstream status is returned as is with an
\* error envelope carrying the upstream body text; a missing phone number
\* yields 400 and no outbound call.
C10_SuccessReturnedAs200 ==
    Served("initiate_call") =>
       /\ (HasPhoneNumber(req) /\ VapiConfigured /\ UpstreamAnswered) =>
            LET up == outbound[1].result
            IN /\ (up.status_code \in {200, 201} /\ "json" \in DOMAIN up) =>
                     (resp.status = 200 /\ resp.body = up.json)
               /\ (up.status_code \in {200, 201} /\ "json" \notin DOMAIN up) =>
                     resp.status = 500
               /\ up.status_code \notin {200, 201} =>
                     /\ resp.status = up.status_code
                     /\ resp.body.error = "Vapi Error"
                     /\ resp.body.details = up.text
       /\ (HasJson(req.body) /\ ~HasPhoneNumber(req)) =>
            (resp.status = 400 /\ outbound = <<>>)

\* an upstream 201 Created handed to the client as 200
C10_Witness ==
    /\ Served("initiate_call")
    /\ HasPhoneNumber(req)
    /\ UpstreamAnswered
    /\ outbound[1].result.status_code = 201
    /\ "json" \in DOMAIN outbound[1].result
    /\ resp.status = 200
    /\ resp.body = outbound[1].result.json

----------------------------------------------------------------------------
(* GET /api/meta/campaigns: the ad-insights aggregation *)

\* most campaigns in the campaign-list response
MaxCampaigns == 2

\* the numeric strings of the insights explored, as int() reads them
IntTable ==
    { [text |-> "0", value |-> 0], [text |-> "2", value |-> 2], [text |-> "3", value |-> 3],
      [text |-> "10", value |-> 10], [text |-> "100", value |-> 100] }

\* int(s): the value, or ValueError ("abc", "2.5")
parse_int(s) ==
    IF \E e \in IntTable : e.text = s
    THEN [ok |-> TRUE, value |-> (CHOOSE e \in IntTable : e.text = s).value]
    ELSE [ok |-> FALSE]

\* the decimal strings explored, as float() reads them, in hundredths
FloatTable ==
    { [text |-> "0", value |-> 0], [text |-> "12.50", value |-> 1250],
      [text |-> "7.25", value |-> 725], [text |-> "10.0", value |-> 1000],
      [text |-> "1.25", value |-> 125] }

\* float(s), in hundredths: the value, or ValueError
parse_float(s) ==
    IF \E e \in FloatTable : e.text = s
    THEN [ok |-> TRUE, value |-> (CHOOSE e \in FloatTable : e.text = s).value]
    ELSE [ok |-> FALSE]

\* str.lower() on the statuses explored
Lower(s) == IF s = "ACTIVE" THEN "active" ELSE IF s = "PAUSED" THEN "paused" ELSE s

\* ad_account_id.startswith('act_') on the account ids explored
StartsWithAct(s) == s \in {"act_123"}

\* n / d rounded to the nearest integer, ties to even: round(x, 2) on hundredths
RoundDiv(n, d) ==
    LET q == n \div d
        r == n % d
    IN IF 2 * r < d THEN q
       ELSE IF 2 * r > d THEN q + 1
       ELSE IF q % 2 = 0 THEN q ELSE q + 1

LeadTypes == {"lead", "onsite_conversion.lead_grouped"}

PurchaseTypes == {"offsite_conversion.fb_pixel_purchase", "onsite_conversion.purchase"}

\* int(action.get('value', 0)): ValueError when the value is not an integer
action_value(action) ==
    IF "value" \in DOMAIN action THEN parse_int(action.value) ELSE [ok |-> TRUE, value |-> 0]

RECURSIVE count_actions(_, _)
\* lines 678-689: the sum of the values of the actions whose type is in types
count_actions(actions, types) ==
    IF actions = <<>> THEN [ok |-> TRUE, value |-> 0]
    ELSE LET action == Head(actions)
             v == IF Get(action, "action_type", NoneV) \in types
                  THEN action_value(action) ELSE [ok |-> TRUE, value |-> 0]
             rest == count_actions(Tail(actions), types)
         IN IF v.ok /\ rest.ok THEN [ok |-> TRUE, value |-> v.value + rest.value]
            ELSE [ok |-> FALSE]

\* int(insights.get(k, 0)) and float(insights.get(k, 0))
int_field(insights, k) ==
    IF k \in DOMAIN insights THEN parse_int(insights[k]) ELSE [ok |-> TRUE, value |-> 0]

float_field(insights, k) ==
    IF k \in DOMAIN insights THEN parse_float(insights[k]) ELSE [ok |-> TRUE, value |-> 0]

\* lines 674-705: the summary of one campaign, or an exception
format_campaign(camp) ==
    LET insights == Get(camp, "insights", EmptyObj)
        actions == Get(insights, "actions", <<>>)
        leads == count_actions(actions, LeadTypes)
        conversions == count_actions(actions, PurchaseTypes)
        spend == float_field(insights, "spend")
        impressions == int_field(insights, "impressions")
        clicks == int_field(insights, "clicks")
        ctr == float_field(insights, "ctr")
        cpc == float_field(insights, "cpc")
        cpm == float_field(insights, "cpm")
        reach == int_field(insights, "reach")
    IN IF \A x \in {leads, conversions, spend, impressions, clicks, ctr, cpc, cpm, reach} : x.ok
       THEN [ ok |-> TRUE,
              value |-> [ id |-> Get(camp, "id", NoneV), name |-> Get(camp, "name", NoneV),
                          status |-> Lower(Get(camp, "effective_status", "unknown")),
                          spend |-> spend.value, impressions |-> impressions.value,
                          clicks |-> clicks.value, ctr |-> ctr.value, cpc |-> cpc.value,
                          cpm |-> cpm.value, reach |-> reach.value,
                          leads |-> leads.value, conversions |-> conversions.value ] ]
       ELSE [ok |-> FALSE]

RECURSIVE SumField(_, _)
\* the running total of field k over the campaign summaries
SumField(formatted, k) ==
    IF formatted = <<>> THEN 0 ELSE Head(formatted)[k] + SumField(Tail(formatted), k)

\* totals and averages with the click-through rate left as a ratio (no x 100)
campaign_stats_ratio(formatted) ==
    LET totalSpend == SumField(formatted, "spend")
        totalImpressions == SumField(formatted, "impressions")
        totalClicks == SumField(formatted, "clicks")
    IN [ totalSpend |-> totalSpend,
         totalImpressions |-> totalImpressions,
         totalClicks |-> totalClicks,
         totalLeads |-> SumField(formatted, "leads"),
         totalReach |-> SumField(formatted, "reach"),
         avgCTR |-> IF totalImpressions > 0
                    THEN RoundDiv(totalClicks * 100, totalImpressions) ELSE 0,
         avgCPC |-> IF totalClicks > 0 THEN RoundDiv(totalSpend, totalClicks) ELSE 0 ]

\* lines 665-728: totals and averages (money and ratios in hundredths)
campaign_stats(formatted) ==
    LET totalSpend == SumField(formatted, "spend")
        totalImpressions == SumField(formatted, "impressions")
        totalClicks == SumField(formatted, "clicks")
    IN [ totalSpend |-> totalSpend,
         totalImpressions |-> totalImpressions,
         totalClicks |-> totalClicks,
         totalLeads |-> SumField(formatted, "leads"),
         totalReach |-> SumField(formatted, "reach"),
         avgCTR |-> IF totalImpressions > 0
                    THEN RoundDiv(totalClicks * 10000, totalImpressions) ELSE 0,
         avgCPC |-> IF totalClicks > 0 THEN RoundDiv(totalSpend, totalClicks) ELSE 0 ]

\* lines 657-660: requests.get raises, or ins_res.json() raises, or the first
\* row of 'data' (else {}) is taken; ins_res.status_code is never looked at
fetch_insights(ins_res) ==
    IF ins_res.raises \/ "json" \notin DOMAIN ins_res THEN [ok |-> FALSE]
    ELSE LET insights_data == Get(ins_res.json, "data", <<>>)
         IN [ok |-> TRUE,
             value |-> IF insights_data # <<>> THEN insights_data[1] ELSE EmptyObj]

RECURSIVE insights_loop(_, _, _, _, _)
\* lines 649-661: one insights request per campaign, in order
insights_loop(campaigns, i, ins, with_insights, calls) ==
    IF i > Len(campaigns) THEN [ok |-> TRUE, campaigns |-> with_insights, calls |-> calls]
    ELSE LET camp == campaigns[i]
             call == [api |-> "graph/{camp_id}/insights", camp_id |-> Get(camp, "id", NoneV),
                      result |-> ins[i]]
             got == fetch_insights(ins[i])
         IN IF ~got.ok THEN [ok |-> FALSE, calls |-> Append(calls, call)]
            ELSE insights_loop(campaigns, i + 1, ins,
                     Append(with_insights,
                            [k \in DOMAIN camp \cup {"insights"} |->
                               IF k = "insights" THEN got.value ELSE camp[k]]),
                     Append(calls, call))

RECURSIVE format_loop(_, _)
\* lines 673-712: the summaries of all campaigns, or the first exception
format_loop(campaigns, formatted) ==
    IF campaigns = <<>> THEN [ok |-> TRUE, value |-> formatted]
    ELSE LET f == format_campaign(Head(campaigns))
         IN IF ~f.ok THEN [ok |-> FALSE]
            ELSE format_loop(Tail(campaigns), Append(formatted, f.value))

\* a credentials check that looks at the access token only
meta_credentials_missing_token_only(access_token, ad_account_id) == ~Truthy(access_token)

\* line 607: not access_token or not ad_account_id
meta_credentials_missing(access_token, ad_account_id) ==
    ~Truthy(access_token) \/ ~Truthy(ad_account_id)

\* the body of get_meta_campaigns
get_meta_campaigns_run(list_res, ins, store) ==
    LET access_token == getenv("VITE_META_ACCESS_TOKEN")
        ad_account_id == getenv("VITE_META_AD_ACCOUNT_ID")
    IN IF meta_credentials_missing(access_token, ad_account_id)
       THEN Outcome(store, 200,
                    [data |-> <<>>, error |-> "Missing backend credentials"], <<>>)
       ELSE
       LET account == IF StartsWithAct(ad_account_id) THEN ad_account_id
                      ELSE "act_" \o ad_account_id
           list_call == [api |-> "graph/{ad_account_id}/campaigns", account |-> account,
                         result |-> list_res]
       IN IF list_res.raises
          THEN Outcome(store, 500, [error |-> "ConnectionError"], <<list_call>>)
          ELSE IF "json" \notin DOMAIN list_res
          THEN Outcome(store, 500, [error |-> "JSONDecodeError"], <<list_call>>)
          ELSE IF list_res.status_code # 200
          THEN Outcome(store, list_res.status_code,
                       [error |-> "Meta API Error", details |-> list_res.json], <<list_call>>)
          ELSE
          LET campaigns == Get(list_res.json, "data", <<>>)
              fetched == insights_loop(campaigns, 1, ins, <<>>, <<list_call>>)
          IN IF ~fetched.ok
             THEN Outcome(store, 500, [error |-> "exception"], fetched.calls)
             ELSE LET formatted == format_loop(fetched.campaigns, <<>>)
                  IN IF ~formatted.ok
                     THEN Outcome(store, 500, [error |-> "ValueError"], fetched.calls)
                     ELSE Outcome(store, 200,
                                  [data |-> formatted.value,
                                   stats |-> campaign_stats(formatted.value)],
                                  fetched.calls)

(* the upstream responses explored *)

Campaigns ==
    { [id |-> "c1", name |-> "Spring", effective_status |-> "ACTIVE"],
      [id |-> "c2", name |-> "Fall"] }

CampaignListResponses ==
    { [raises |-> TRUE],
      [raises |-> FALSE, status_code |-> 400, json |-> [error |-> "Invalid OAuth token"]],
      [raises |-> FALSE, status_code |-> 500],
      [raises |-> FALSE, status_code |-> 200],
      [raises |-> FALSE, status_code |-> 200, json |-> EmptyObj] }
    \cup { [raises |-> FALSE, status_code |-> 200, json |-> [data |-> cs]] :
             cs \in SeqsOf(Campaigns, 0, MaxCampaigns) }

InsightsRows ==
    { [ impressions |-> "100", clicks |-> "10", spend |-> "12.50", ctr |-> "10.0",
        cpc |-> "1.25", reach |-> "100",
        actions |-> << [action_type |-> "lead", value |-> "3"],
                       [action_type |-> "link_click", value |-> "10"],
                       [action_type |-> "onsite_conversion.purchase", value |-> "2"] >> ],
      [ impressions |-> "100", clicks |-> "0", spend |-> "7.25" ],
      [ impressions |-> "10", clicks |-> "3",
        actions |-> << [action_type |-> "lead"],
                       [action_type |-> "onsite_conversion.lead_grouped", value |-> "3"] >> ],
      [ impressions |-> "10",
        actions |-> << [action_type |-> "lead", value |-> "abc"] >> ],
      [ impressions |-> "10",
        actions |-> << [action_type |-> "offsite_conversion.fb_pixel_purchase",
                        value |-> "2.5"] >> ],
      [ impressions |-> "10",
        actions |-> << [action_type |-> "link_click", value |-> "abc"],
                       [action_type |-> "offsite_conversion.fb_pixel_purchase",
                        value |-> "2"] >> ] }

InsightsResponses ==
    { [raises |-> TRUE],
      [raises |-> FALSE, status_code |-> 502],
      [raises |-> FALSE, status_code |-> 400, json |-> [error |-> "Unsupported get request"]],
      [raises |-> FALSE, status_code |-> 200, json |-> [data |-> <<>>]] }
    \cup { [raises |-> FALSE, status_code |-> 200, json |-> [data |-> <<row>>]] :
             row \in InsightsRows }

get_meta_campaigns ==
    /\ Pending("get_meta_campaigns")
    /\ \E list_res \in CampaignListResponses, ins \in [1..MaxCampaigns -> InsightsResponses] :
           Return(get_meta_campaigns_run(list_res, ins, messages_store))

MetaCampaignsRequests == { [op |-> "get_meta_campaigns"] }

AdsEnvs ==
    { EnvUnset,
      EnvWith([VITE_META_ACCESS_TOKEN |-> "ads-token"]),
      EnvWith([VITE_META_AD_ACCOUNT_ID |-> "123"]),
      EnvWith([VITE_META_ACCESS_TOKEN |-> "ads-token", VITE_META_AD_ACCOUNT_ID |-> "123"]),
      EnvWith([VITE_META_ACCESS_TOKEN |-> "ads-token", VITE_META_AD_ACCOUNT_ID |-> "act_123"]) }

InitAds ==
    /\ messages_store = InitialStore
    /\ env \in AdsEnvs
    /\ req = NoRequest
    /\ resp = NoResponse
    /\ outbound = <<>>

NextAds ==
    \/ client_request(MetaCampaignsRequests)
    \/ response_sent
    \/ get_meta_campaigns

SpecAds == InitAds /\ [][NextAds]_vars

(* Properties of the ad-insights aggregation *)

AdsConfigured ==
    Truthy(env["VITE_META_ACCESS_TOKEN"]) /\ Truthy(env["VITE_META_AD_ACCOUNT_ID"])

\* the campaign-list call was issued and answered (with any status)
ListAnswered == Len(outbound) >= 1 /\ ~outbound[1].result.raises

\* the campaign-list call was answered 200 with a JSON body
ListOk ==
    /\ ListAnswered
    /\ outbound[1].result.status_code = 200
    /\ "json" \in DOMAIN outbound[1].result

\* the campaigns of the list response
ListedCampaigns == Get(outbound[1].result.json, "data", <<>>)

\* the answer to the insights request of campaign i
InsightsResult(i) == outbound[1 + i].result

\* every insights request was issued and answered with a JSON body
AllInsightsAnswered ==
    /\ Len(outbound) = 1 + Len(ListedCampaigns)
    /\ \A i \in DOMAIN ListedCampaigns :
         ~InsightsResult(i).raises /\ "json" \in DOMAIN InsightsResult(i)

\* the actions of the first insights row of campaign i
ActionsOf(i) ==
    LET rows == Get(InsightsResult(i).json, "data", <<>>)
    IN IF rows = <<>> THEN <<>> ELSE Get(rows[1], "actions", <<>>)

\* the value of an action as C8 reads it: zero when absent or not an integer
ClaimedActionValue(action) ==
    IF "value" \in DOMAIN action /\ parse_int(action.value).ok
    THEN parse_int(action.value).value ELSE 0

RECURSIVE ClaimedCount(_, _)
ClaimedCount(actions, types) ==
    IF actions = <<>> THEN 0
    ELSE (IF Get(Head(actions), "action_type", NoneV) \in types
          THEN ClaimedActionValue(Head(actions)) ELSE 0)
         + ClaimedCount(Tail(actions), types)

\* C8: when summing a campaign's actions into the lead and the conversions
\* counter, an action whose value is absent or not parsable as an integer
\* contributes zero, actions of other types contribute to neither counter,
\* and the request still succeeds with status 200.
C8_UnparsableValueCountsZero ==
    (Served("get_meta_campaigns") /\ AdsConfigured /\ ListOk /\ AllInsightsAnswered) =>
        /\ resp.status = 200
        /\ \A i \in DOMAIN ListedCampaigns :
             /\ resp.body.data[i].leads = ClaimedCount(ActionsOf(i), LeadTypes)
             /\ resp.body.data[i].conversions = ClaimedCount(ActionsOf(i), PurchaseTypes)

\* an insights call failed: it raised or came back with a non-200 status
InsightsFailed(r) == r.raises \/ r.status_code # 200

\* C9 as stated: a non-200 campaign-list response aborts the operation and
\* passes the upstream status through in an error envelope with no insights
\* request issued; a failing insights call for any campaign makes the whole
\* request end with status 500.
C9_InsightsFailureGives500 ==
    (Served("get_meta_campaigns") /\ AdsConfigured /\ ListAnswered) =>
        /\ outbound[1].result.status_code # 200 =>
              /\ resp.status = outbound[1].result.status_code
              /\ resp.body.error = "Meta API Error"
              /\ Len(outbound) = 1
        /\ (ListOk /\ \E k \in 2..Len(outbound) : InsightsFailed(outbound[k].result)) =>
              resp.status = 500

RECURSIVE TotalOf(_, _, _)
\* the sum of field k over the first n campaign summaries of the response
TotalOf(data, k, n) == IF n = 0 THEN 0 ELSE TotalOf(data, k, n - 1) + data[n][k]

\* a is n / d to the nearest unit
IsNearest(a, n, d) ==
    LET diff == a * d - n
    IN 2 * (IF diff < 0 THEN -diff ELSE diff) <= d

\* the response carries campaign summaries and their stats
HasStats == Served("get_meta_campaigns") /\ resp.status = 200 /\ "stats" \in DOMAIN resp.body

\* C12: the stats' totalImpressions, totalClicks, totalLeads and totalReach are
\* the sums of those fields over the returned campaign summaries; avgCTR is
\* total clicks / total impressions x 100 when total impressions is positive
\* and avgCPC is total spend / total clicks when total clicks is positive
\* (both to two decimals, held here in hundredths), each zero otherwise; with
\* impressions {100,100} and clicks {10,0} avgCTR is 5.0 and avgCPC is total
\* spend / 10.
C12_StatsTotalsAndAverages ==
    HasStats =>
        LET data == resp.body.data
            stats == resp.body.stats
            n == Len(data)
            spend == TotalOf(data, "spend", n)
            impressions == TotalOf(data, "impressions", n)
            clicks == TotalOf(data, "clicks", n)
        IN /\ stats.totalImpressions = impressions
           /\ stats.totalClicks = clicks
           /\ stats.totalLeads = TotalOf(data, "leads", n)
           /\ stats.totalReach = TotalOf(data, "reach", n)
           /\ IF impressions > 0 THEN IsNearest(stats.avgCTR, clicks * 10000, impressions)
                                 ELSE stats.avgCTR = 0
           /\ IF clicks > 0 THEN IsNearest(stats.avgCPC, spend, clicks)
                            ELSE stats.avgCPC = 0
           /\ (n = 2 /\ data[1].impressions = 100 /\ data[2].impressions = 100
                 /\ data[1].clicks = 10 /\ data[2].clicks = 0) =>
                 (stats.avgCTR = 500 /\ IsNearest(stats.avgCPC, spend, 10))

\* two campaigns with impressions 100 and 100, clicks 10 and 0, spend 12.50
\* and 7.25: avgCTR 5.00 and avgCPC 1.98
C12_Witness ==
    /\ HasStats
    /\ Len(resp.body.data) = 2
    /\ resp.body.data[1].impressions = 100 /\ resp.body.data[2].impressions = 100
    /\ resp.body.data[1].clicks = 10 /\ resp.body.data[2].clicks = 0
    /\ resp.body.stats.totalClicks = 10
    /\ resp.body.stats.totalLeads = 3
    /\ resp.body.stats.avgCTR = 500
    /\ resp.body.stats.avgCPC = 198

----------------------------------------------------------------------------
(* GET /api/leads: leads from the spreadsheet *)

\* most data rows below the header row, and most cells in a row
MaxRows == 2

MaxCols == 2

\* JSON scalars of a lead: a number and a string are never equal
JsonInt(n) == [int |-> n]

JsonStr(s) == [str |-> s]

\* d[k] = v on a dict: the key is added, or its value replaced
set_item(d, k, v) == [x \in DOMAIN d \cup {k} |-> IF x = k THEN v ELSE d[x]]

\* a fill value of null instead of ''
cell_or_none(row, j) == IF j <= Len(row) THEN JsonStr(row[j]) ELSE JsonStr(NoneV)

\* line 148: row[j] if j < len(row) else '' (j counts from 1 here)
cell_or_empty(row, j) == IF j <= Len(row) THEN JsonStr(row[j]) ELSE JsonStr("")

RECURSIVE headers_loop(_, _, _, _)
\* lines 147-148: for j, header in enumerate(headers): lead[header] = ...
headers_loop(lead, headers, row, j) ==
    IF j > Len(headers) THEN lead
    ELSE headers_loop(set_item(lead, headers[j], cell_or_empty(row, j)), headers, row, j + 1)

RECURSIVE rows_loop(_, _, _, _)
\* lines 145-149: for i, row in enumerate(rows[1:], 1)
rows_loop(headers, rows, i, leads) ==
    IF i > Len(rows) THEN leads
    ELSE rows_loop(headers, rows, i + 1,
             Append(leads, headers_loop([id |-> JsonInt(i)], headers, rows[i], 1)))

\* the body of get_leads; sheet is what values().get(...).execute() does
get_leads_run(sheet, store) ==
    LET call == [api |-> "sheets.values.get", range |-> "Form Responses 1!A:J",
                 result |-> sheet]
    IN IF sheet.raises THEN Outcome(store, 500, [error |-> "HttpError"], <<call>>)
       ELSE LET rows == Get(sheet.result, "values", <<>>)
            IN IF rows = <<>> THEN Outcome(store, 200, <<>>, <<call>>)
               ELSE Outcome(store, 200, rows_loop(Head(rows), Tail(rows), 1, <<>>), <<call>>)

\* the header rows and the sheets explored
SheetHeaders == { <<>>, <<"Name">>, <<"Name", "Phone">>, <<"id", "Name">>, <<"Name", "Name">> }

SheetResults ==
    { [raises |-> TRUE], [raises |-> FALSE, result |-> EmptyObj],
      [raises |-> FALSE, result |-> [values |-> <<>>]] }
    \cup { [raises |-> FALSE, result |-> [values |-> <<h>> \o rs]] :
             h \in SheetHeaders,
             rs \in SeqsOf(SeqsOf({"Alice", "555"}, 0, MaxCols), 0, MaxRows) }

get_leads ==
    /\ Pending("get_leads")
    /\ \E sheet \in SheetResults : Return(get_leads_run(sheet, messages_store))

LeadsRequests == { [op |-> "get_leads"] }

InitLeads ==
    /\ messages_store = InitialStore
    /\ env = EnvUnset
    /\ req = NoRequest
    /\ resp = NoResponse
    /\ outbound = <<>>

NextLeads ==
    \/ client_request(LeadsRequests)
    \/ response_sent
    \/ get_leads

SpecLeads == InitLeads /\ [][NextLeads]_vars

(* Properties of the leads retrieval *)

\* the sheet was read: the rows it returned (none when 'values' is absent)
SheetAnswered == Served("get_leads") /\ ~outbound[1].result.raises

SheetRows == Get(outbound[1].result.result, "values", <<>>)

\* the cell of data row n in column j, '' when the row is shorter
CellOf(n, j) ==
    LET row == SheetRows[n + 1]
    IN IF j <= Len(row) THEN JsonStr(row[j]) ELSE JsonStr("")

\* C13 as stated: the first sheet row is the header row and every later row n
\* becomes one object whose 'id' is n and which maps each header to the row's
\* cell in that column, or to '' when the row is shorter; no rows, or only a
\* header row, yield an empty array; header [Name, Phone] with row [Alice, 555]
\* yields [{id:1, Name:'Alice', Phone:'555'}].
C13_LeadsKeyedByHeader ==
    SheetAnswered =>
        /\ resp.status = 200
        /\ Len(SheetRows) <= 1 => resp.body = <<>>
        /\ Len(SheetRows) > 1 =>
             /\ Len(resp.body) = Len(SheetRows) - 1
             /\ \A n \in DOMAIN resp.body :
                  /\ resp.body[n].id = JsonInt(n)
                  /\ \A j \in DOMAIN SheetRows[1] :
                       resp.body[n][SheetRows[1][j]] = CellOf(n, j)
        /\ SheetRows = << <<"Name", "Phone">>, <<"Alice", "555">> >> =>
             resp.body = << [id |-> JsonInt(1), Name |-> JsonStr("Alice"),
                             Phone |-> JsonStr("555")] >>

\* column j is the last column of the header row with its header
IsLastWithHeader(j) ==
    \A k \in DOMAIN SheetRows[1] : SheetRows[1][k] = SheetRows[1][j] => k <= j

\* C13 (amended): as stated, except that the object's keys are 'id' and the
\* headers, 'id' is n unless a header is itself named 'id' (that column's cell
\* then replaces the number), and of several columns with the same header the
\* last one's cell is the one kept.
C13_LeadsKeyedByLastHeader ==
    SheetAnswered =>
        /\ resp.status = 200
        /\ Len(SheetRows) <= 1 => resp.body = <<>>
        /\ Len(SheetRows) > 1 =>
             /\ Len(resp.body) = Len(SheetRows) - 1
             /\ \A n \in DOMAIN resp.body :
                  /\ DOMAIN resp.body[n] = {"id"} \cup { SheetRows[1][j] : j \in DOMAIN SheetRows[1] }
                  /\ (\A j \in DOMAIN SheetRows[1] : SheetRows[1][j] # "id") =>
                        resp.body[n].id = JsonInt(n)
                  /\ \A j \in DOMAIN SheetRows[1] :
                       IsLastWithHeader(j) => resp.body[n][SheetRows[1][j]] = CellOf(n, j)
        /\ SheetRows = << <<"Name", "Phone">>, <<"Alice", "555">> >> =>
             resp.body = << [id |-> JsonInt(1), Name |-> JsonStr("Alice"),
                             Phone |-> JsonStr("555")] >>

\* header [Name, Phone], a full row and a short row: two leads, the second
\* with Phone ''
C13_Witness ==
    /\ SheetAnswered
    /\ SheetRows = << <<"Name", "Phone">>, <<"Alice", "555">>, <<"Alice">> >>
    /\ resp.body = << [id |-> JsonInt(1), Name |-> JsonStr("Alice"), Phone |-> JsonStr("555")],
                      [id |-> JsonInt(2), Name |-> JsonStr("Alice"), Phone |-> JsonStr("")] >>

----------------------------------------------------------------------------
(* Properties of the credential lookup of the WhatsApp senders *)

\* only the unprefixed variants of the WhatsApp token and phone id are set
OnlyUnprefixedWhatsapp ==
    /\ Truthy(env["WHATSAPP_ACCESS_TOKEN"]) /\ Truthy(env["WHATSAPP_PHONE_ID"])
    /\ ~Truthy(env["VITE_WHATSAPP_ACCESS_TOKEN"]) /\ ~Truthy(env["VITE_WHATSAPP_PHONE_ID"])

\* tool call tc asks send_whatsapp_details to write to a phone number
IsWhatsappDetailsCall(tc) ==
    /\ tc.function.name = "send_whatsapp_details"
    /\ tc.function.arguments.form \in {"object", "json_string"}
    /\ Truthy(Get(tc.function.arguments.value, "phone_number", NoneV))

\* C14: every WhatsApp sender checks the prefixed and the unprefixed variant
\* of the access token and the phone id: with only the unprefixed variants
\* configured, POST /api/whatsapp/send and the send_whatsapp_details tool
\* handler both perform the outbound send rather than simulating or skipping it.
C14_UnprefixedCredentialsSend ==
    OnlyUnprefixedWhatsapp =>
        /\ (Served("send_whatsapp_message") /\ SendHasToAndText(req)) =>
              /\ Len(outbound) = 1
              /\ outbound[1].api = "graph/{phone_id}/messages"
        /\ (Served("vapi_webhook") /\ IsToolCallsBody(req.body) /\ resp.status = 200) =>
              \A i \in DOMAIN req.body.json.message.toolCalls :
                  IsWhatsappDetailsCall(req.body.json.message.toolCalls[i]) =>
                      /\ IssuedCall(resp.body.results[i].result)
                      /\ outbound[CallIndex(i)].api = "graph/{phone_id}/messages"

----------------------------------------------------------------------------
(* Properties of the ads credentials check *)

\* C15: when the ads access token or the ads account id is not configured,
\* GET /api/meta/campaigns answers 200 with an empty 'data' list and an
\* 'error' field, and issues no outbound request.
C15_MissingAdsCredentialsGive200 ==
    (Served("get_meta_campaigns") /\ ~AdsConfigured) =>
        /\ resp.status = 200
        /\ resp.body.data = <<>>
        /\ "error" \in DOMAIN resp.body
        /\ outbound = <<>>

\* the access token is set, the account id is not, and the request was
\* answered 200 with no data and no outbound request
C15_Witness ==
    /\ Served("get_meta_campaigns")
    /\ Truthy(env["VITE_META_ACCESS_TOKEN"])
    /\ ~Truthy(env["VITE_META_AD_ACCOUNT_ID"])
    /\ resp.status = 200
    /\ resp.body.data = <<>>
    /\ outbound = <<>>

----------------------------------------------------------------------------
(* Concurrent requests.  app.run (line 753) serves every request in a thread *)
(* of its own: req, resp and outbound are then per thread (functions of the  *)
(* thread), and messages_store is the one list all threads share.  A thread  *)
(* runs its handler up to the next messages_store.insert, and the insert     *)
(* itself, a single list method call, is one step of the interpreter.        *)

\* most requests in flight at once, and the longest store explored
MaxThreads == 2

MaxConcStore == 5

Threads == 1..MaxThreads

RECURSIVE Reverse(_)
Reverse(s) == IF s = <<>> THEN <<>> ELSE Append(Reverse(Tail(s)), Head(s))

\* the requests explored: a webhook delivery with two messages, one that
\* fails after its first insert, an Instagram event with text, and a send
ConcRequests ==
    { [op |-> "whatsapp_webhook",
       body |-> JsonBody([entry |-> <<[changes |-> <<[value |-> [messages |-> <<m, n>>]]>>]>>])] :
         m \in {x \in WaMsgs : x.id = "wamid.1"}, n \in {x \in WaMsgs : x.id = "wamid.2"} }
    \cup { [op |-> "whatsapp_webhook",
            body |-> JsonBody([entry |-> <<[changes |->
                       <<[value |-> [messages |-> <<m>>]],
                         [value |-> [messages |-> <<m>>, contacts |-> <<>>]]>>]>>])] :
             m \in {x \in WaMsgs : x.id = "wamid.1"} }
    \cup { [op |-> "instagram_webhook",
            body |-> JsonBody([entry |-> <<[messaging |-> <<ev>>]>>])] :
             ev \in {x \in IgEvents : "message" \in DOMAIN x /\ "text" \in DOMAIN x.message} }
    \cup { [op |-> "send_whatsapp_message", body |-> JsonBody([to |-> "+15551", text |-> "hi"]),
            ts |-> 1, upstream |-> "status_200"] }

\* the handler of request r run on its own: the messages it inserts (newest
\* first in .store), its response and its outbound calls
handler_run(r) ==
    CASE r.op = "whatsapp_webhook" -> webhook_outcome(whatsapp_webhook_try(r.body, <<>>))
      [] r.op = "instagram_webhook" -> webhook_outcome(instagram_webhook_try(r.body, <<>>))
      [] r.op = "send_whatsapp_message" ->
            send_whatsapp_message_run(r.body, r.ts, r.upstream, <<>>)
      [] r.op = "send_instagram_message" ->
            send_instagram_message_run(r.body, r.ts, r.upstream, <<>>)

\* the messages the handler of r inserts, in the order it inserts them
Inserts(r) == IF r = NoRequest THEN <<>> ELSE Reverse(handler_run(r).store)

\* how many of them it has inserted so far
Pos(r) == IF "pos" \in DOMAIN r THEN r.pos ELSE 0

\* thread t accepts a request
thread_request(t) ==
    /\ req[t] = NoRequest
    /\ \E r \in ConcRequests :
         req' = [req EXCEPT ![t] = [k \in DOMAIN r \cup {"pos"} |-> IF k = "pos" THEN 0 ELSE r[k]]]
    /\ UNCHANGED <<messages_store, env, resp, outbound>>

\* thread t reaches its next messages_store.insert(0, new_msg)
thread_insert(t) ==
    /\ req[t] # NoRequest
    /\ resp[t].status = 0
    /\ Pos(req[t]) < Len(Inserts(req[t]))
    /\ Len(messages_store) < MaxConcStore
    /\ messages_store' = insert_front(messages_store, Inserts(req[t])[Pos(req[t]) + 1])
    /\ req' = [req EXCEPT ![t].pos = @ + 1]
    /\ UNCHANGED <<env, resp, outbound>>

\* the handler of thread t returns
thread_return(t) ==
    /\ req[t] # NoRequest
    /\ resp[t].status = 0
    /\ Pos(req[t]) = Len(Inserts(req[t]))
    /\ resp' = [resp EXCEPT ![t] = handler_run(req[t]).resp]
    /\ outbound' = [outbound EXCEPT ![t] = handler_run(req[t]).calls]
    /\ UNCHANGED <<messages_store, env, req>>

\* the response of thread t has been written to the client
thread_response_sent(t) ==
    /\ resp[t].status # 0
    /\ req' = [req EXCEPT ![t] = NoRequest]
    /\ resp' = [resp EXCEPT ![t] = NoResponse]
    /\ outbound' = [outbound EXCEPT ![t] = <<>>]
    /\ UNCHANGED <<messages_store, env>>

ConcEnvs == { EnvUnset }

InitConcurrent ==
    /\ messages_store = InitialStore
    /\ env \in ConcEnvs
    /\ req = [t \in Threads |-> NoRequest]
    /\ resp = [t \in Threads |-> NoResponse]
    /\ outbound = [t \in Threads |-> <<>>]

NextConcurrent ==
    \E t \in Threads :
        \/ thread_request(t)
        \/ thread_insert(t)
        \/ thread_return(t)
        \/ thread_response_sent(t)

SpecConcurrent == InitConcurrent /\ [][NextConcurrent]_vars

(* Properties of the shared store under concurrency *)

\* message m is in store s
IsStored(m, s) == \E i \in DOMAIN s : s[i] = m

\* C16: under any interleaving of concurrent webhook deliveries and sends,
\* each insertion is a single atomic front-insert: every change of the store
\* puts the next message of one handler that reached its insert in front of
\* the unchanged previous contents (nothing stored is lost or duplicated), and
\* every message a handler has inserted is in the store afterwards; only the
\* order among messages of different requests depends on the interleaving.
C16_AtomicFrontInserts ==
    [][ /\ \/ messages_store' = messages_store
           \/ \E t \in Threads :
                /\ Pos(req[t]) < Len(Inserts(req[t]))
                /\ req'[t] # NoRequest
                /\ Pos(req'[t]) = Pos(req[t]) + 1
                /\ \A u \in Threads \ {t} : req'[u] = req[u]
                /\ messages_store' = <<Inserts(req[t])[Pos(req[t]) + 1]>> \o messages_store
        /\ \A t \in Threads :
             \A k \in 1..Pos(req'[t]) : IsStored(Inserts(req'[t])[k], messages_store') ]_vars

\* a send of one thread landed between the two messages of another thread's
\* webhook delivery
C16_Witness ==
    /\ Len(messages_store) = 5
    /\ messages_store[1].platform = "whatsapp" /\ messages_store[1].sender # "me"
    /\ messages_store[2].sender = "me"
    /\ messages_store[3].platform = "whatsapp" /\ messages_store[3].sender # "me"
    /\ \E t \in Threads : req[t] # NoRequest /\ req[t].op = "whatsapp_webhook"
                          /\ Pos(req[t]) = 2
    /\ \E t \in Threads : req[t] # NoRequest /\ req[t].op = "send_whatsapp_message"
                          /\ Pos(req[t]) = 1

====
